---- MODULE Spec2Model ----
(***************************************************************************)
(* Model of backend/server.js: an Express application whose handlers are   *)
(* gated by requireAuth / requireAdmin and talk to an external store       *)
(* (Supabase) through awaited calls.  A request runs atomically from its   *)
(* arrival up to the first awaited store call; every awaited store call    *)
(* (the store executing it, and the handler's continuation up to the next  *)
(* await or the response) is one further step, so the steps of different   *)
(* requests interleave exactly at the handler's await points.              *)
(*                                                                         *)
(* Strings the code computes on (the Authorization header, ADMIN_EMAILS,   *)
(* e-mail addresses, the price field) are sequences of one-character       *)
(* strings.                                                                *)
(***************************************************************************)
EXTENDS Integers, Sequences, FiniteSets, TLC

(* ------------------------------ bounds ------------------------------- *)
MaxReqs == 2        \* requests in flight at the same time
MaxEnroll == 2      \* rows of the enrollments table
MaxCourses == 1     \* course ids 1..MaxCourses
MaxLen == 2         \* length of a price string in a request body

CourseIds == 1..MaxCourses
EnrollIds == 1..MaxEnroll
Slots == 1..MaxReqs

(* --------------------------- JS string helpers ----------------------- *)
\* String.prototype.toLowerCase on one character of the model's alphabet
LowerChar(c) ==
    CASE c = "A" -> "a"
      [] c = "B" -> "b"
      [] c = "C" -> "c"
      [] OTHER -> c

toLowerCase(s) == [i \in 1..Len(s) |-> LowerChar(s[i])]

IsSpace(c) == c = " "

RECURSIVE TrimStart(_)
TrimStart(s) ==
    IF s # <<>> /\ IsSpace(Head(s)) THEN TrimStart(Tail(s)) ELSE s

RECURSIVE TrimEnd(_)
TrimEnd(s) ==
    IF s # <<>> /\ IsSpace(s[Len(s)]) THEN TrimEnd(SubSeq(s, 1, Len(s) - 1)) ELSE s

\* String.prototype.trim
trim(s) == TrimEnd(TrimStart(s))

\* String.prototype.split(","): the pieces between commas; "" gives [""]
RECURSIVE SplitFrom(_, _)
SplitFrom(s, cur) ==
    IF s = <<>> THEN <<cur>>
    ELSE IF Head(s) = "," THEN <<cur>> \o SplitFrom(Tail(s), <<>>)
    ELSE SplitFrom(Tail(s), Append(cur, Head(s)))

split(s) == SplitFrom(s, <<>>)

startsWith(s, p) == Len(s) >= Len(p) /\ SubSeq(s, 1, Len(p)) = p

slice(s, n) == SubSeq(s, n + 1, Len(s))

Range(f) == {f[i] : i \in DOMAIN f}

(* ----------------------------- JS values ----------------------------- *)
\* The values a JSON body field can hold, as far as the handlers look at them.
JsUndefined == [t |-> "undefined", n |-> 0, s |-> <<>>]
JsNull == [t |-> "null", n |-> 0, s |-> <<>>]
JsNaN == [t |-> "NaN", n |-> 0, s |-> <<>>]
JsNum(k) == [t |-> "number", n |-> k, s |-> <<>>]
JsStr(str) == [t |-> "string", n |-> 0, s |-> str]

IsDigit(c) == c \in {"0", "1"}

DigitVal(c) == IF c = "1" THEN 1 ELSE 0

AllDigits(s) == s # <<>> /\ \A i \in 1..Len(s) : IsDigit(s[i])

RECURSIVE DigitsValue(_)
DigitsValue(s) ==
    IF s = <<>> THEN 0
    ELSE 10 * DigitsValue(SubSeq(s, 1, Len(s) - 1)) + DigitVal(s[Len(s)])

\* StringToNumber (ECMAScript 7.1.4.1.1) on the model's alphabet: white space
\* is stripped, the empty string is 0, an optionally signed run of decimal
\* digits is its value, anything else is NaN.  (-0 is represented by 0.)
StringToNumber(str) ==
    LET t == trim(str) IN
    IF t = <<>> THEN JsNum(0)
    ELSE IF AllDigits(t) THEN JsNum(DigitsValue(t))
    ELSE IF Head(t) = "-" /\ AllDigits(Tail(t)) THEN JsNum(0 - DigitsValue(Tail(t)))
    ELSE JsNaN

\* Number(v)
Number(v) ==
    CASE v.t = "undefined" -> JsNaN
      [] v.t = "null" -> JsNum(0)
      [] v.t = "string" -> StringToNumber(v.s)
      [] OTHER -> v

\* ToBoolean of a number: 0 and NaN are falsy
Truthy(v) == v.t = "number" /\ v.n # 0

\* parseFloat-like reading of a price: the longest numeric prefix counts
RECURSIVE DigitPrefix(_)
DigitPrefix(s) ==
    IF s # <<>> /\ IsDigit(Head(s)) THEN <<Head(s)>> \o DigitPrefix(Tail(s)) ELSE <<>>

PrefixNumber(v) ==
    IF v.t # "string" THEN Number(v)
    ELSE LET t == TrimStart(v.s)
             neg == t # <<>> /\ Head(t) = "-"
             d == DigitPrefix(IF neg THEN Tail(t) ELSE t)
         IN IF d = <<>> THEN JsNaN
            ELSE JsNum(IF neg THEN 0 - DigitsValue(d) ELSE DigitsValue(d))

CoercePricePrefix(price) ==
    IF Truthy(PrefixNumber(price)) THEN PrefixNumber(price).n ELSE 0

\* server.js:86  price: Number(price) || 0
CoercePrice(price) ==
    IF Truthy(Number(price)) THEN Number(price).n ELSE 0

(* -------------------- configuration and collaborators ---------------- *)
\* process.env.ADMIN_EMAILS as the deployment may set it: unset, or a
\* comma-separated list written with a space after the comma.
AdminEmailsConfigs == { <<>>, <<"c", ",", " ", "a">> }

BearerPrefix == <<"B", "e", "a", "r", "e", "r", " ">>

\* The identity service (supabasePublic.auth.getUser): the tokens it
\* accepts and the e-mail of the user each resolves to.  Token "3" belongs
\* to a user without an e-mail address (anonymous or phone sign-in), whose
\* user.email is the empty string.
ValidTokens == { <<"1">>, <<"2">>, <<"3">> }

TokenEmail(tok) ==
    CASE tok = <<"1">> -> <<"A">>
      [] tok = <<"2">> -> <<"b">>
      [] OTHER -> <<>>

Emails == { TokenEmail(tok) : tok \in ValidTokens }

getUser(tok) ==
    IF tok \in ValidTokens
    THEN [error |-> FALSE, email |-> TokenEmail(tok)]
    ELSE [error |-> TRUE, email |-> <<>>]

\* The Authorization header of a request: absent, or a string.
NoHeader == [present |-> FALSE, s |-> <<>>]
Hdr(str) == [present |-> TRUE, s |-> str]

Headers ==
    { NoHeader, Hdr(<<>>), Hdr(BearerPrefix), Hdr(<<"1">>),
      Hdr(<<"b", "e", "a", "r", "e", "r", " ", "1">>),
      Hdr(<<"B", "a", "s", "i", "c", " ", "1">>),
      Hdr(BearerPrefix \o <<"9">>) }
    \cup { Hdr(BearerPrefix \o tok) : tok \in ValidTokens }

(* ----------------------------- middleware ---------------------------- *)
\* A token taken from the header whatever its scheme
getBearerTokenAnyScheme(h) ==
    LET a == IF h.present THEN h.s ELSE <<>> IN
    IF startsWith(a, BearerPrefix) THEN [null |-> FALSE, tok |-> slice(a, 7)]
    ELSE [null |-> a = <<>>, tok |-> a]

\* server.js:30-34
getBearerToken(h) ==
    LET a == IF h.present THEN h.s ELSE <<>> IN
    IF ~startsWith(a, BearerPrefix) THEN [null |-> TRUE, tok |-> <<>>]
    ELSE [null |-> FALSE, tok |-> slice(a, 7)]

\* server.js:36-46; status 0 stands for next()
requireAuth(h) ==
    LET token == getBearerToken(h) IN
    IF token.null \/ token.tok = <<>>
    THEN [status |-> 401, msg |-> "Missing token", email |-> <<>>]
    ELSE LET r == getUser(token.tok) IN
         IF r.error
         THEN [status |-> 401, msg |-> "Invalid token", email |-> <<>>]
         ELSE [status |-> 0, msg |-> "", email |-> r.email]

\* server.js:49-51
admins(env) == LET parts == split(env) IN
    [i \in 1..Len(parts) |-> toLowerCase(trim(parts[i]))]

\* server.js:53  admins.includes(req.user.email.toLowerCase())
includesAdmin(env, email) == toLowerCase(email) \in Range(admins(env))

\* server.js:48-57; status 0 stands for next()
requireAdmin(env, email) ==
    IF ~includesAdmin(env, email)
    THEN [status |-> 403, msg |-> "Admin only"]
    ELSE [status |-> 0, msg |-> ""]

(* ------------------------------- state ------------------------------- *)
VARIABLES
    ADMIN_EMAILS,   \* process.env.ADMIN_EMAILS, fixed when the process starts
    courses,        \* store table courses: id -> [present, price]
    enrollments,    \* store table enrollments: row id -> [course_id, user_email, status]
    req,            \* the requests in flight: slot -> the handler's position and locals
    res,            \* what the last step sent (or failed to send) to a caller
    okEnrolls,      \* history: per (course, e-mail), the enroll requests answered with success
    granted         \* history: the (course, e-mail) pairs a configured admin's PUT set to "lulus"

vars == <<ADMIN_EMAILS, courses, enrollments, req, res, okEnrolls, granted>>

Statuses == {"terdaftar", "lulus", "gagal"}

\* The message of an error object the store returns
StoreErrMsg == "store error"

\* The price fields request bodies carry: absent, null, numbers and strings
PriceChars == {"0", "1", "-", "a", " "}

PriceStrings == UNION { [1..k -> PriceChars] : k \in 0..MaxLen }

BodyPrices ==
    {JsUndefined, JsNull, JsNum(0 - 1), JsNum(0), JsNum(2)}
        \cup {JsStr(str) : str \in PriceStrings}

\* The price field of the body of PUT /api/courses/:id, handed to the store as it is
UpdatePrices == {JsUndefined, JsNum(0 - 1), JsNum(2)}

Idle ==
    [pc |-> "idle", hdr |-> NoHeader, email |-> <<>>, arg |-> 0,
     val |-> JsUndefined, status |-> "", err |-> FALSE]

NoRes ==
    [route |-> "none", hdr |-> NoHeader, authed |-> FALSE, email |-> <<>>, arg |-> 0,
     val |-> JsUndefined, status |-> 0, ctype |-> "none", body |-> "none", msg |-> "",
     err |-> FALSE]

\* res.status(code).json({ message })
JsonMessage(route, q, authed, code, msg) ==
    [route |-> route, hdr |-> q.hdr, authed |-> authed, email |-> q.email, arg |-> q.arg,
     val |-> q.val, status |-> code, ctype |-> "application/json", body |-> "message", msg |-> msg,
     err |-> q.err]

\* res.json(data)
JsonData(route, q) ==
    [route |-> route, hdr |-> q.hdr, authed |-> TRUE, email |-> q.email, arg |-> q.arg,
     val |-> q.val, status |-> 200, ctype |-> "application/json", body |-> "data", msg |-> "",
     err |-> q.err]

\* res.setHeader("Content-Type", "application/pdf"); res.send(Buffer.concat(chunks))
\* (server.js:218-222): the document's bytes, which pdfkit has emitted by "end"
PdfResponse(route, q) ==
    [route |-> route, hdr |-> q.hdr, authed |-> TRUE, email |-> q.email, arg |-> q.arg,
     val |-> q.val, status |-> 200, ctype |-> "application/pdf", body |-> "pdf", msg |-> "",
     err |-> q.err]

\* A TypeError thrown inside an async handler after an await.  Express 4
\* leaves the rejected promise unhandled and the request is never answered;
\* Express 5 passes it to the default error handler, which answers 500 with
\* an HTML page.  The repository pins no version, so both are outcomes.
Thrown(route, q) ==
    { [route |-> route, hdr |-> q.hdr, authed |-> TRUE, email |-> q.email, arg |-> q.arg,
       val |-> q.val, status |-> 0, ctype |-> "none", body |-> "none", msg |-> "",
       err |-> q.err],
      [route |-> route, hdr |-> q.hdr, authed |-> TRUE, email |-> q.email, arg |-> q.arg,
       val |-> q.val, status |-> 500, ctype |-> "text/html", body |-> "html", msg |-> "",
       err |-> q.err] }

Pairs == CourseIds \X Emails

Init ==
    /\ ADMIN_EMAILS \in AdminEmailsConfigs
    /\ courses = [c \in CourseIds |-> [present |-> FALSE, price |-> 0]]
    /\ enrollments = <<>>
    /\ req = [r \in Slots |-> Idle]
    /\ res = NoRes
    /\ okEnrolls = [p \in Pairs |-> 0]
    /\ granted = {}

AuthRoutes ==
    {"POST /api/courses", "PUT /api/courses/:id", "DELETE /api/courses/:id",
     "POST /api/enroll", "GET /api/my-enrollments", "GET /api/enrollments",
     "PUT /api/enrollments/:id", "GET /api/certificates/:courseId"}

AdminRoutes ==
    {"POST /api/courses", "PUT /api/courses/:id", "DELETE /api/courses/:id",
     "GET /api/enrollments", "PUT /api/enrollments/:id"}

InFlight == {r \in Slots : req[r].pc # "idle"}

\* A request is taken into the lowest free slot
FreeSlot(r) ==
    /\ res = NoRes
    /\ req[r].pc = "idle"
    /\ \A q \in Slots : q < r => req[q].pc # "idle"

\* The handler in slot r is suspended at the await `pc`, and the store answers
At(r, pc) == res = NoRes /\ req[r].pc = pc

store == <<courses, enrollments>>
history == <<okEnrolls, granted>>

(* -------------------- arrival: the middleware chain ------------------ *)
\* app.METHOD(path, requireAuth[, requireAdmin], handler): the request runs
\* through the middleware and, when both call next(), the handler runs up to
\* its first awaited store call, with its locals one of `started` (what the
\* handler takes from req.params and req.body).
Arrive(r, route, started) ==
    /\ FreeSlot(r)
    /\ \E h \in Headers :
         LET a == requireAuth(h) IN
         IF a.status # 0
         THEN /\ res' = JsonMessage(route, [Idle EXCEPT !.hdr = h], FALSE, a.status, a.msg)
              /\ UNCHANGED req
         ELSE LET g == requireAdmin(ADMIN_EMAILS, a.email) IN
              IF route \in AdminRoutes /\ g.status # 0
              THEN /\ res' = JsonMessage(route, [Idle EXCEPT !.hdr = h, !.email = a.email],
                                          TRUE, g.status, g.msg)
                   /\ UNCHANGED req
              ELSE /\ \E q \in started :
                        req' = [req EXCEPT ![r] = [q EXCEPT !.hdr = h, !.email = a.email]]
                   /\ res' = NoRes
    /\ UNCHANGED <<ADMIN_EMAILS, store, history>>

\* The handler's response: the slot is free again
Finish(r, response) ==
    /\ req' = [req EXCEPT ![r] = Idle]
    /\ res' = response

(* ------------------------------ health ------------------------------- *)
\* server.js:62
Health ==
    /\ res = NoRes
    /\ res' = [NoRes EXCEPT !.route = "GET /", !.status = 200, !.ctype = "text/html",
                            !.body = "text"]
    /\ UNCHANGED <<ADMIN_EMAILS, store, req, history>>

(* ------------------------------ courses ------------------------------ *)
\* server.js:67-71: GET /api/courses has no middleware
GetCourses(r) ==
    /\ FreeSlot(r)
    /\ req' = [req EXCEPT ![r] = [Idle EXCEPT !.pc = "courses_select"]]
    /\ res' = NoRes
    /\ UNCHANGED <<ADMIN_EMAILS, store, history>>

\* server.js:68-75
GetCoursesReply(r) ==
    /\ At(r, "courses_select")
    /\ \E error \in BOOLEAN :
         LET q == [req[r] EXCEPT !.err = error] IN
         IF error
         THEN Finish(r, JsonMessage("GET /api/courses", q, FALSE, 500, StoreErrMsg))
         ELSE Finish(r, [JsonData("GET /api/courses", q) EXCEPT !.authed = FALSE])
    /\ UNCHANGED <<ADMIN_EMAILS, store, history>>

\* server.js:77-78
PostCourses(r) ==
    Arrive(r, "POST /api/courses",
           {[Idle EXCEPT !.pc = "courses_insert", !.val = price] : price \in BodyPrices})

\* The store's id for a new course row
NewCourseId == CHOOSE c \in CourseIds :
    /\ ~courses[c].present
    /\ \A d \in CourseIds : d < c => courses[d].present

\* server.js:80-94
PostCoursesInsert(r) ==
    /\ At(r, "courses_insert")
    /\ \E error \in BOOLEAN :
         LET q == [req[r] EXCEPT !.err = error] IN
         IF error
         THEN /\ Finish(r, JsonMessage("POST /api/courses", q, TRUE, 500, StoreErrMsg))
              /\ UNCHANGED courses
         ELSE /\ \E c \in CourseIds : ~courses[c].present
              /\ courses' = [courses EXCEPT ![NewCourseId] =
                                [present |-> TRUE, price |-> CoercePrice(q.val)]]
              /\ Finish(r, JsonData("POST /api/courses", [q EXCEPT !.arg = NewCourseId]))
    /\ UNCHANGED <<ADMIN_EMAILS, enrollments, history>>

\* server.js:96
PutCourses(r) ==
    Arrive(r, "PUT /api/courses/:id",
           {[Idle EXCEPT !.pc = "courses_update", !.arg = id, !.val = price] :
               id \in CourseIds, price \in UpdatePrices})

\* server.js:97-104: update(req.body) writes the body's fields as they are
PutCoursesUpdate(r) ==
    /\ At(r, "courses_update")
    /\ \E error \in BOOLEAN :
         LET q == [req[r] EXCEPT !.err = error] IN
         IF error
         THEN /\ Finish(r, JsonMessage("PUT /api/courses/:id", q, TRUE, 500, StoreErrMsg))
              /\ UNCHANGED courses
         ELSE /\ courses' =
                    IF courses[q.arg].present /\ q.val.t = "number"
                    THEN [courses EXCEPT ![q.arg].price = q.val.n]
                    ELSE courses
              /\ Finish(r, JsonMessage("PUT /api/courses/:id", q, TRUE, 200, "Updated"))
    /\ UNCHANGED <<ADMIN_EMAILS, enrollments, history>>

\* server.js:106
DeleteCourses(r) ==
    Arrive(r, "DELETE /api/courses/:id",
           {[Idle EXCEPT !.pc = "courses_delete", !.arg = id] : id \in CourseIds})

\* server.js:107-114
DeleteCoursesDelete(r) ==
    /\ At(r, "courses_delete")
    /\ \E error \in BOOLEAN :
         LET q == [req[r] EXCEPT !.err = error] IN
         IF error
         THEN /\ Finish(r, JsonMessage("DELETE /api/courses/:id", q, TRUE, 500, StoreErrMsg))
              /\ UNCHANGED courses
         ELSE /\ courses' = [courses EXCEPT ![q.arg] = [present |-> FALSE, price |-> 0]]
              /\ Finish(r, JsonMessage("DELETE /api/courses/:id", q, TRUE, 200, "Deleted"))
    /\ UNCHANGED <<ADMIN_EMAILS, enrollments, history>>

(* ---------------------------- enrollments ---------------------------- *)
\* .eq("course_id", c).eq("user_email", e): the ids of the matching rows
Matching(c, e) ==
    {i \in DOMAIN enrollments :
        enrollments[i].course_id = c /\ enrollments[i].user_email = e}

\* .maybeSingle(): no row is data null without an error, one row is that row,
\* several rows are an error (data null)
maybeSingle(ids, failed) ==
    IF failed \/ Cardinality(ids) > 1 THEN [error |-> TRUE, data |-> 0]
    ELSE IF ids = {} THEN [error |-> FALSE, data |-> 0]
    ELSE [error |-> FALSE, data |-> CHOOSE i \in ids : TRUE]

\* .single(): exactly one row, anything else is an error (data null)
single(ids, failed) ==
    IF failed \/ Cardinality(ids) # 1 THEN [error |-> TRUE, data |-> 0]
    ELSE [error |-> FALSE, data |-> CHOOSE i \in ids : TRUE]

\* An insert that keeps (course_id, user_email) unique
insertUnique(rows, row) ==
    IF \E i \in DOMAIN rows :
          rows[i].course_id = row.course_id /\ rows[i].user_email = row.user_email
    THEN rows
    ELSE Append(rows, row)

\* server.js:133-137: from("enrollments").insert(row)
insert(rows, row) == Append(rows, row)

\* server.js:119-120
PostEnroll(r) ==
    Arrive(r, "POST /api/enroll",
           {[Idle EXCEPT !.pc = "enroll_check", !.arg = course_id] : course_id \in CourseIds})

\* server.js:122-131: the error of the existence check is not read
PostEnrollCheck(r) ==
    /\ At(r, "enroll_check")
    /\ \E error \in BOOLEAN :
         LET q == [req[r] EXCEPT !.err = error]
             existing == maybeSingle(Matching(q.arg, q.email), error).data
         IN IF existing # 0
            THEN Finish(r, JsonMessage("POST /api/enroll", q, TRUE, 400, "Sudah terdaftar"))
            ELSE /\ req' = [req EXCEPT ![r] = [q EXCEPT !.pc = "enroll_insert"]]
                 /\ res' = NoRes
    /\ UNCHANGED <<ADMIN_EMAILS, store, history>>

\* server.js:133-141
PostEnrollInsert(r) ==
    /\ At(r, "enroll_insert")
    /\ \E error \in BOOLEAN :
         LET q == [req[r] EXCEPT !.err = @ \/ error] IN
         IF error
         THEN /\ Finish(r, JsonMessage("POST /api/enroll", q, TRUE, 500, StoreErrMsg))
              /\ UNCHANGED <<enrollments, okEnrolls>>
         ELSE /\ Len(enrollments) < MaxEnroll
              /\ enrollments' = insert(enrollments,
                    [course_id |-> q.arg, user_email |-> q.email, status |-> "terdaftar"])
              /\ okEnrolls' = [okEnrolls EXCEPT ![<<q.arg, q.email>>] = @ + 1]
              /\ Finish(r, JsonMessage("POST /api/enroll", q, TRUE, 200, "Pendaftaran berhasil"))
    /\ UNCHANGED <<ADMIN_EMAILS, courses, granted>>

\* server.js:143
GetMyEnrollments(r) ==
    Arrive(r, "GET /api/my-enrollments", {[Idle EXCEPT !.pc = "my_select"]})

\* server.js:144-156 (the joined courses(title) of every row is taken to be
\* there: the schema that would decide otherwise is not part of the repository)
GetMyEnrollmentsReply(r) ==
    /\ At(r, "my_select")
    /\ \E error \in BOOLEAN :
         LET q == [req[r] EXCEPT !.err = error] IN
         IF error
         THEN Finish(r, JsonMessage("GET /api/my-enrollments", q, TRUE, 500, StoreErrMsg))
         ELSE Finish(r, JsonData("GET /api/my-enrollments", q))
    /\ UNCHANGED <<ADMIN_EMAILS, store, history>>

(* ------------------------- admin verification ------------------------ *)
\* server.js:161
GetEnrollments(r) ==
    Arrive(r, "GET /api/enrollments", {[Idle EXCEPT !.pc = "enrollments_select"]})

\* server.js:162-172: only data is read; on a store error data is null and
\* data.map throws
GetEnrollmentsReply(r) ==
    /\ At(r, "enrollments_select")
    /\ \E error \in BOOLEAN :
         LET q == [req[r] EXCEPT !.err = error] IN
         IF error
         THEN \E t \in Thrown("GET /api/enrollments", q) : Finish(r, t)
         ELSE Finish(r, JsonData("GET /api/enrollments", q))
    /\ UNCHANGED <<ADMIN_EMAILS, store, history>>

\* server.js:174
PutEnrollments(r) ==
    Arrive(r, "PUT /api/enrollments/:id",
           {[Idle EXCEPT !.pc = "enrollments_update", !.arg = id, !.status = status] :
               id \in EnrollIds, status \in Statuses})

\* The e-mail addresses the deployment lists in ADMIN_EMAILS: the items
\* between the commas that are not blank, without regard to case
ConfiguredAdmins(env) ==
    {toLowerCase(e) : e \in {trim(p) : p \in Range(split(env))} \ {<<>>}}

IsConfiguredAdmin(env, email) == toLowerCase(email) \in ConfiguredAdmins(env)

\* server.js:175-181: the result of the update is not read
PutEnrollmentsUpdate(r) ==
    /\ At(r, "enrollments_update")
    /\ \E error \in BOOLEAN :
         LET q == [req[r] EXCEPT !.err = error]
             hit == ~error /\ q.arg \in DOMAIN enrollments
         IN /\ enrollments' =
                  IF hit THEN [enrollments EXCEPT ![q.arg].status = q.status]
                  ELSE enrollments
            /\ granted' =
                  IF hit /\ q.status = "lulus" /\ IsConfiguredAdmin(ADMIN_EMAILS, q.email)
                  THEN granted \cup
                         {<<enrollments[q.arg].course_id, enrollments[q.arg].user_email>>}
                  ELSE granted
            /\ Finish(r, JsonMessage("PUT /api/enrollments/:id", q, TRUE, 200, "Status updated"))
    /\ UNCHANGED <<ADMIN_EMAILS, courses, okEnrolls>>

(* ---------------------------- certificate ---------------------------- *)
\* server.js:186-187
GetCertificate(r) ==
    Arrive(r, "GET /api/certificates/:courseId",
           {[Idle EXCEPT !.pc = "cert_select", !.arg = courseId] : courseId \in CourseIds})

\* An eligibility test that turns away only a failed participant
notEligibleUnlessFailed(sel) ==
    sel.error \/ sel.data = 0 \/ enrollments[sel.data].status = "gagal"

\* server.js:196  error || !enrollment || enrollment.status !== "lulus"
notEligible(sel) ==
    sel.error \/ sel.data = 0 \/ enrollments[sel.data].status # "lulus"

\* server.js:189-222, 314: the lookup, the eligibility test and, for an
\* eligible caller, the document, which is sent once when doc.end() has
\* flushed it
GetCertificateReply(r) ==
    /\ At(r, "cert_select")
    /\ \E error \in BOOLEAN :
         LET q == [req[r] EXCEPT !.err = error]
             sel == single(Matching(q.arg, q.email), error)
         IN IF notEligible(sel)
            THEN Finish(r, JsonMessage("GET /api/certificates/:courseId", q, TRUE, 403,
                                       "Belum lulus"))
            ELSE Finish(r, PdfResponse("GET /api/certificates/:courseId", q))
    /\ UNCHANGED <<ADMIN_EMAILS, store, history>>

(* --------------------------- specifications -------------------------- *)
\* res is what the last step wrote to a caller; it has left the process
\* before the server takes its next step.
Flush ==
    /\ res # NoRes
    /\ res' = NoRes
    /\ UNCHANGED <<ADMIN_EMAILS, store, req, history>>

CourseArrivals(r) ==
    \/ GetCourses(r)
    \/ PostCourses(r)
    \/ PutCourses(r)
    \/ DeleteCourses(r)

CourseReplies(r) ==
    \/ GetCoursesReply(r)
    \/ PostCoursesInsert(r)
    \/ PutCoursesUpdate(r)
    \/ DeleteCoursesDelete(r)

EnrollArrivals(r) ==
    \/ PostEnroll(r)
    \/ GetMyEnrollments(r)
    \/ GetEnrollments(r)
    \/ PutEnrollments(r)
    \/ GetCertificate(r)

EnrollReplies(r) ==
    \/ PostEnrollCheck(r)
    \/ PostEnrollInsert(r)
    \/ GetMyEnrollmentsReply(r)
    \/ GetEnrollmentsReply(r)
    \/ PutEnrollmentsUpdate(r)
    \/ GetCertificateReply(r)

\* Every request is handled concurrently with the others, as the runtime does.
\* The course routes and the enrollment routes work on different tables, so
\* the reachable states of Spec are the product of the two sides; SeqSpec
\* and EnrollSpec below are the parts of it that are explored exhaustively.
Next ==
    \/ Health
    \/ Flush
    \/ \E r \in Slots : CourseArrivals(r)
    \/ \E r \in Slots : CourseReplies(r)
    \/ \E r \in Slots : EnrollArrivals(r)
    \/ \E r \in Slots : EnrollReplies(r)

Spec == Init /\ [][Next]_vars

\* Sequential execution of all the routes: a request arrives only when none
\* is in flight
SeqNext ==
    \/ InFlight = {} /\ Health
    \/ Flush
    \/ \E r \in Slots : InFlight = {} /\ CourseArrivals(r)
    \/ \E r \in Slots : CourseReplies(r)
    \/ \E r \in Slots : InFlight = {} /\ EnrollArrivals(r)
    \/ \E r \in Slots : EnrollReplies(r)

SeqSpec == Init /\ [][SeqNext]_vars

\* The routes on the enrollments table, handled concurrently
EnrollNext ==
    \/ Flush
    \/ \E r \in Slots : EnrollArrivals(r)
    \/ \E r \in Slots : EnrollReplies(r)

EnrollSpec == Init /\ [][EnrollNext]_vars

(* ------------------------------- claims ------------------------------ *)
\* The route a suspended handler belongs to
RouteOf(pc) ==
    CASE pc = "courses_select" -> "GET /api/courses"
      [] pc = "courses_insert" -> "POST /api/courses"
      [] pc = "courses_update" -> "PUT /api/courses/:id"
      [] pc = "courses_delete" -> "DELETE /api/courses/:id"
      [] pc \in {"enroll_check", "enroll_insert"} -> "POST /api/enroll"
      [] pc = "my_select" -> "GET /api/my-enrollments"
      [] pc = "enrollments_select" -> "GET /api/enrollments"
      [] pc = "enrollments_update" -> "PUT /api/enrollments/:id"
      [] pc = "cert_select" -> "GET /api/certificates/:courseId"
      [] OTHER -> "none"

\* A request without a valid bearer token: no Authorization header, a header
\* that does not start with "Bearer ", or a token the identity service rejects
NoValidBearer(h) ==
    \/ ~h.present
    \/ ~startsWith(h.s, BearerPrefix)
    \/ SubSeq(h.s, Len(BearerPrefix) + 1, Len(h.s)) \notin ValidTokens

\* C1: on every route guarded by requireAuth, a request whose Authorization
\* header is missing, does not start with "Bearer " or carries a token the
\* identity service rejects is answered 401, and its handler is never started.
C1_Unauthenticated401 ==
    /\ (res.route \in AuthRoutes /\ NoValidBearer(res.hdr)) =>
           (res.status = 401 /\ res.body = "message")
    /\ \A r \in InFlight :
           RouteOf(req[r].pc) \in AuthRoutes => ~NoValidBearer(req[r].hdr)

C1_Witness ==
    /\ res.route = "GET /api/certificates/:courseId"
    /\ res.hdr = Hdr(BearerPrefix \o <<"9">>)
    /\ res.status = 401

\* C2: on every admin-only route an authenticated principal passes the admin
\* gate if and only if its e-mail, compared case-insensitively, is an entry of
\* the configured allowlist; every other authenticated principal gets 403.
C2_AdminGate ==
    /\ (res.route \in AdminRoutes /\ res.authed) =>
           (res.status = 403 <=> ~IsConfiguredAdmin(ADMIN_EMAILS, res.email))
    /\ \A r \in InFlight :
           RouteOf(req[r].pc) \in AdminRoutes =>
               IsConfiguredAdmin(ADMIN_EMAILS, req[r].email)

\* C3: under sequential execution, once an enroll request of a user for a
\* course has been answered with success, every later enroll request of that
\* user for that course is answered 400 "Sudah terdaftar" and inserts no row.
C3_SecondEnrollRejected ==
    [][\A r \in Slots :
          (/\ req[r].pc \in {"enroll_check", "enroll_insert"}
           /\ req'[r].pc = "idle"
           /\ okEnrolls[<<req[r].arg, req[r].email>>] >= 1)
          => (/\ res'.status = 400
              /\ res'.msg = "Sudah terdaftar"
              /\ enrollments' = enrollments)]_vars

\* C4: an authenticated certificate request of a caller who has no enrollment
\* for the course, or has one whose status is not "lulus", is answered 403 and
\* no PDF body or application/pdf content type is sent.
C4_NotPassedNoCertificate ==
    (/\ res.route = "GET /api/certificates/:courseId"
     /\ res.authed
     /\ \/ Matching(res.arg, res.email) = {}
        \/ \E i \in Matching(res.arg, res.email) : enrollments[i].status # "lulus")
    => (res.status = 403 /\ res.ctype # "application/pdf" /\ res.body # "pdf")

C4_Witness ==
    /\ res.route = "GET /api/certificates/:courseId"
    /\ res.authed
    /\ ~res.err
    /\ \E i \in Matching(res.arg, res.email) : enrollments[i].status = "terdaftar"
    /\ res.status = 403

\* C5: an authenticated certificate request made while the store holds an
\* enrollment of the caller for the course with status "lulus" is answered
\* with a non-empty application/pdf body.  (Stated for the requests whose
\* lookup the store served without error, and for an enrollment that a
\* configured admin has set to "lulus".)
C5_PassedGetsCertificate ==
    (/\ res.route = "GET /api/certificates/:courseId"
     /\ res.authed
     /\ ~res.err
     /\ <<res.arg, res.email>> \in granted
     /\ \E i \in Matching(res.arg, res.email) : enrollments[i].status = "lulus")
    => (res.status = 200 /\ res.ctype = "application/pdf" /\ res.body = "pdf")

\* A price field that is not numeric: missing, null, or a string that is not
\* a decimal numeral
IsNumeral(str) ==
    LET t == trim(str) IN
    \E k \in 1..Len(t) :
        /\ \A i \in k..Len(t) : t[i] \in {"0", "1"}
        /\ k = 1 \/ (k = 2 /\ t[1] = "-")

NonNumeric(v) ==
    \/ v.t \in {"undefined", "null"}
    \/ v.t = "string" /\ ~IsNumeral(v.s)

\* C6: the course record created by a POST /api/courses whose price field is
\* non-numeric has price 0.
C6_NonNumericPriceIsZero ==
    (/\ res.route = "POST /api/courses"
     /\ res.status = 200
     /\ NonNumeric(res.val))
    => (courses[res.arg].present /\ courses[res.arg].price = 0)

C6_Witness ==
    /\ res.route = "POST /api/courses"
    /\ res.status = 200
    /\ res.val = JsStr(<<"1", "a">>)
    /\ courses[res.arg].price = 0

\* C7: after any sequence of course creations and updates by admins, every
\* stored course has a non-negative price.  (Stated for a deployment that
\* sets ADMIN_EMAILS, where the requests are those of configured admins.)
C7_PriceNonNegative ==
    ADMIN_EMAILS # <<>> =>
        \A c \in CourseIds : courses[c].present => courses[c].price >= 0

\* C8: two concurrent enroll requests of one user for one course can both pass
\* the existence check before either inserts, and then both insert and both
\* report success: every enroll request answered with success has added a row
\* of its own, whatever the table held by then.
C8_EverySuccessInsertsARow ==
    \A p \in Pairs : Cardinality(Matching(p[1], p[2])) = okEnrolls[p]

\* Two rows for one (course, e-mail) pair and two successes, the second from a
\* request whose check and insert the store both served without error
C8_Witness ==
    /\ res.route = "POST /api/enroll"
    /\ res.status = 200
    /\ ~res.err
    /\ Cardinality(Matching(res.arg, res.email)) = 2
    /\ okEnrolls[<<res.arg, res.email>>] = 2

\* C9: whenever the store reports an error for a call a handler makes, the
\* request ends with status 500 and a {message} body carrying the store's
\* error message.  (Stated for a deployment that sets ADMIN_EMAILS.)
C9_StoreError500 ==
    (ADMIN_EMAILS # <<>> /\ res.route # "none" /\ res.err) =>
        (res.status = 500 /\ res.body = "message" /\ res.msg = StoreErrMsg)

\* C10: starting from a store without "lulus" enrollments, a certificate PDF
\* is returned to a user for a course only after the PUT /api/enrollments/:id
\* request of an admin has set an enrollment of that (course, e-mail) pair to
\* "lulus".
C10_CertificateOnlyAfterAdminGrant ==
    (res.route = "GET /api/certificates/:courseId" /\ res.body = "pdf")
    => <<res.arg, res.email>> \in granted

====
